---- MODULE Spec2Model ----
(***************************************************************************)
(* Paystack relay backend: POST /pay (initialize a transaction) and        *)
(* POST /paystack-webhook (verify, acknowledge, send the receipt emails).  *)
(*                                                                         *)
(* The repository holds several revisions of the same server:              *)
(*   "part_001"  src/unnamed/part_001          (structured cart, ack first)*)
(*   "part_000"  src/unnamed/part_000          (/pay also sends a receipt) *)
(*   "part_002"  src/unnamed/part_002          (/pay without validation)   *)
(*   "index_a"   src/index.js lines 1-122      (/pay, no validation, email)*)
(*   "index_b"   src/index.js lines 124-348    (webhook without signature) *)
(*   "index_c"   src/index.js lines 350-535    (webhook answers last)      *)
(* The variable rev says which one is deployed.  Spec runs part_001, the   *)
(* latest revision; SpecRevisions runs any of them.                        *)
(*                                                                         *)
(* Text is a sequence of one-character strings.  A JavaScript number is    *)
(* held as an integer count of tenths (15 is 1.5), so that fractional      *)
(* quantities and prices exist; the literals of the input sets carry at    *)
(* most one fractional digit.  A total (price * quantity) is therefore in  *)
(* hundredths, which is also the gateway's minor unit.                     *)
(*                                                                         *)
(* Values that a function of the source keeps in a local variable and      *)
(* reads several times are passed here as operator parameters.             *)
(***************************************************************************)
EXTENDS Integers, Sequences, FiniteSets, TLC

(***************************************************************************)
(* Text                                                                    *)
(***************************************************************************)
Digits == <<"0", "1", "2", "3", "4", "5", "6", "7", "8", "9">>

IsDigit(c) == \E i \in 1..10 : Digits[i] = c

DigitVal(c) == (CHOOSE i \in 1..10 : Digits[i] = c) - 1

IsSpace(c) == c = " "

Upper == <<"A","B","C","D","E","F","G","H","I","J","K","L","M",
           "N","O","P","Q","R","S","T","U","V","W","X","Y","Z">>

Lower == <<"a","b","c","d","e","f","g","h","i","j","k","l","m",
           "n","o","p","q","r","s","t","u","v","w","x","y","z">>

\* the /i flag of a RegExp: letters compare by their lower-case form
ToLower(c) == IF \E i \in 1..26 : Upper[i] = c
              THEN Lower[CHOOSE i \in 1..26 : Upper[i] = c]
              ELSE c

Least(S) == CHOOSE x \in S : \A y \in S : x <= y

Greatest(S) == CHOOSE x \in S : \A y \in S : x >= y

RECURSIVE TrimStart(_)
TrimStart(s) == IF s # <<>> /\ IsSpace(Head(s)) THEN TrimStart(Tail(s)) ELSE s

RECURSIVE TrimEnd(_)
TrimEnd(s) == IF s # <<>> /\ IsSpace(s[Len(s)])
              THEN TrimEnd(SubSeq(s, 1, Len(s) - 1))
              ELSE s

\* String.prototype.trim
Trim(s) == TrimEnd(TrimStart(s))

\* s has p at position i (1-based)
HasAt(s, p, i) == /\ i >= 1
                  /\ i + Len(p) - 1 <= Len(s)
                  /\ \A k \in 1..Len(p) : s[i + k - 1] = p[k]

\* the same, ignoring letter case
HasAtI(s, p, i) == /\ i >= 1
                   /\ i + Len(p) - 1 <= Len(s)
                   /\ \A k \in 1..Len(p) : ToLower(s[i + k - 1]) = ToLower(p[k])

\* the text from position i on
From(s, i) == SubSeq(s, i, Len(s))

\* first position >= i at which s does not hold a digit (Len(s)+1 if none): \d*
RECURSIVE SkipDigits(_, _)
SkipDigits(s, i) == IF i <= Len(s) /\ IsDigit(s[i]) THEN SkipDigits(s, i + 1) ELSE i

\* first position >= i at which s does not hold white space: \s*
RECURSIVE SkipSpaces(_, _)
SkipSpaces(s, i) == IF i <= Len(s) /\ IsSpace(s[i]) THEN SkipSpaces(s, i + 1) ELSE i

\* first position >= i that holds neither a digit nor a dot: [0-9.]*
RECURSIVE SkipNumChars(_, _)
SkipNumChars(s, i) ==
  IF i <= Len(s) /\ (IsDigit(s[i]) \/ s[i] = ".") THEN SkipNumChars(s, i + 1) ELSE i

\* Array.prototype.join
RECURSIVE Join(_, _)
Join(parts, sep) == IF parts = <<>> THEN <<>>
                    ELSE IF Len(parts) = 1 THEN parts[1]
                    ELSE parts[1] \o sep \o Join(Tail(parts), sep)

\* the positions at which sep stands in s
Occurrences(s, sep) == {i \in 1..Len(s) : HasAt(s, sep, i)}

\* String.prototype.split with a non-empty separator: the text before the
\* first occurrence, then the split of what follows it
RECURSIVE Split(_, _)
Split(s, sep) ==
  IF Occurrences(s, sep) = {} THEN <<s>>
  ELSE <<SubSeq(s, 1, Least(Occurrences(s, sep)) - 1)>>
       \o Split(From(s, Least(Occurrences(s, sep)) + Len(sep)), sep)

\* decimal numeral of a natural number
RECURSIVE NatText(_)
NatText(n) == IF n < 10 THEN <<Digits[n + 1]>>
              ELSE NatText(n \div 10) \o <<Digits[(n % 10) + 1]>>

\* value of the digits s[i..j-1]
RECURSIVE DigitsValue(_, _, _)
DigitsValue(s, i, j) == IF i >= j THEN 0
                        ELSE DigitsValue(s, i, j - 1) * 10 + DigitVal(s[j - 1])

(***************************************************************************)
(* JavaScript values: undefined, null, numbers (in tenths), NaN, strings   *)
(* and booleans, all of one record shape.                                  *)
(***************************************************************************)
Undef == [t |-> "undefined", n |-> 0, s |-> <<>>]

Null == [t |-> "null", n |-> 0, s |-> <<>>]

NaN == [t |-> "nan", n |-> 0, s |-> <<>>]

\* the number n/10
Num(n) == [t |-> "number", n |-> n, s |-> <<>>]

\* a number held in hundredths (a total, or an amount in the minor unit)
Cents(n) == [t |-> "cents", n |-> n, s |-> <<>>]

Str(s) == [t |-> "string", n |-> 0, s |-> s]

\* typeof v === "number"
IsNumberType(v) == v.t \in {"number", "nan"}

\* !v
Falsy(v) == \/ v.t \in {"undefined", "null", "nan"}
            \/ v.t \in {"number", "cents", "boolean"} /\ v.n = 0
            \/ v.t = "string" /\ v.s = <<>>

\* a || b
OrElse(a, b) == IF Falsy(a) THEN b ELSE a

\* Number.prototype.toString of m/10, m >= 0
PosText(m) == NatText(m \div 10) \o
              (IF m % 10 = 0 THEN <<>> ELSE <<".", Digits[(m % 10) + 1]>>)

NumText(n) == IF n < 0 THEN <<"-">> \o PosText(0 - n) ELSE PosText(n)

\* String(v), also what a template literal does with v
JSString(v) ==
  CASE v.t = "undefined" -> <<"u", "n", "d", "e", "f", "i", "n", "e", "d">>
    [] v.t = "null" -> <<"n", "u", "l", "l">>
    [] v.t = "nan" -> <<"N", "a", "N">>
    [] v.t = "number" -> NumText(v.n)
    [] v.t = "boolean" -> IF v.n = 1 THEN <<"t", "r", "u", "e">> ELSE <<"f", "a", "l", "s", "e">>
    [] OTHER -> v.s

\* s holds ".\d" at j: the (?:\.\d+)? of a numeral is there
FractionAt(s, j) == j + 1 <= Len(s) /\ s[j] = "." /\ IsDigit(s[j + 1])

\* the value in tenths of a numeral whose digits are s[d..j-1]
DecimalValue(s, d, j) ==
  DigitsValue(s, d, j) * 10 + (IF FractionAt(s, j) THEN DigitVal(s[j + 1]) ELSE 0)

\* the position after a numeral whose digits are s[d..j-1]
DecimalEnd(s, j) == IF FractionAt(s, j) THEN SkipDigits(s, j + 1) ELSE j

\* the value in tenths of \d+(?:\.\d+)? at the digit s[d]
DecimalAt(s, d) == DecimalValue(s, d, SkipDigits(s, d))

\* t, trimmed and not empty, is a numeral from its digit t[d] to its end ("12."
\* is one too)
NumeralToEnd(t, d, j) ==
  /\ d <= Len(t)
  /\ IsDigit(t[d])
  /\ \/ DecimalEnd(t, j) = Len(t) + 1
     \/ j = Len(t) /\ t[j] = "."

\* StringToNumber of a trimmed text: "" is 0, a signed decimal numeral is its
\* value, anything else NaN
TrimmedToNumber(t, d) ==
  IF t = <<>> THEN Num(0)
  ELSE IF NumeralToEnd(t, d, SkipDigits(t, d))
       THEN Num(IF t[1] = "-" THEN 0 - DecimalAt(t, d) ELSE DecimalAt(t, d))
       ELSE NaN

SignLength(t) == IF t # <<>> /\ t[1] \in {"-", "+"} THEN 1 ELSE 0

NumberOfTrimmed(t) == TrimmedToNumber(t, SignLength(t) + 1)

\* Number(v)
ToNumber(v) ==
  CASE v.t = "undefined" -> NaN
    [] v.t = "null" -> Num(0)
    [] v.t = "boolean" -> Num(v.n * 10)
    [] v.t = "string" -> NumberOfTrimmed(Trim(v.s))
    [] OTHER -> v

\* Number.isFinite(v) for the numbers of the model
IsFinite(v) == v.t = "number"

(***************************************************************************)
(* Helpers of part_001                                                     *)
(***************************************************************************)
\* the first ">" after position i of s, 0 when there is none
CloseAfter(s, i) ==
  IF \E j \in (i + 1)..Len(s) : s[j] = ">"
  THEN Least({j \in (i + 1)..Len(s) : s[j] = ">"})
  ELSE 0

\* the positions at which /<[^>]+>/ matches: a "<" whose first ">" after it is
\* at least two characters on
TagStarts(s) == {i \in 1..Len(s) : s[i] = "<" /\ CloseAfter(s, i) >= i + 2}

\* s without its first tag, which starts at i, and without the tags after it
RECURSIVE RemoveTags(_)
CutTag(s, i) == SubSeq(s, 1, i - 1) \o RemoveTags(From(s, CloseAfter(s, i) + 1))

\* s.replace(/<[^>]+>/g, "")
RemoveTags(s) == IF TagStarts(s) = {} THEN s ELSE CutTag(s, Least(TagStarts(s)))

\* stripTags = (s = "") => String(s).replace(/<[^>]+>/g, "").trim()
stripTags(v) == Trim(RemoveTags(IF v.t = "undefined" THEN <<>> ELSE JSString(v)))

\* clean.replace(/^label\s*:\s*/i, "").trim(), j being where the ":" must stand
DropLabel(clean, label, j) ==
  IF HasAtI(clean, label, 1) /\ j <= Len(clean) /\ clean[j] = ":"
  THEN Trim(From(clean, SkipSpaces(clean, j + 1)))
  ELSE Trim(clean)

\* the body of stripLabel once clean = stripTags(s) is known
StripLabelOf(clean, label) ==
  IF label = <<>> THEN clean
  ELSE DropLabel(clean, label, SkipSpaces(clean, Len(label) + 1))

\* stripLabel(s, label)
stripLabel(v, label) == StripLabelOf(stripTags(v), label)

\* positions at which /-?\d+(?:\.\d+)?/ can start
NumeralStarts(s) ==
  {i \in 1..Len(s) : \/ IsDigit(s[i])
                     \/ s[i] = "-" /\ i + 1 <= Len(s) /\ IsDigit(s[i + 1])}

\* Number(m[0]) for the match that starts at i
NumeralAt(s, i) ==
  IF s[i] = "-" THEN Num(0 - DecimalAt(s, i + 1)) ELSE Num(DecimalAt(s, i))

\* String(s).match(/-?\d+(?:\.\d+)?/), then m ? Number(m[0]) : 0
FirstNumeral(s) ==
  IF NumeralStarts(s) = {} THEN Num(0) ELSE NumeralAt(s, Least(NumeralStarts(s)))

\* numFromPrice: a number as it is, else the first numeral of String(s), else 0
numFromPrice(v) == IF IsNumberType(v) THEN v ELSE FirstNumeral(JSString(v))

LabelPreset == <<"P", "r", "e", "s", "e", "t">>

LabelHandleType == <<"H", "a", "n", "d", "l", "e", " ", "T", "y", "p", "e">>

LabelMugType == <<"M", "u", "g", " ", "T", "y", "p", "e">>

LabelMugColor == <<"M", "u", "g", " ", "C", "o", "l", "o", "r">>

LabelReplacementName == <<"R", "e", "p", "l", "a", "c", "e", "m", "e", "n", "t", " ", "N", "a", "m", "e">>

ColonSpace == <<":", " ">>

CommaSpace == <<",", " ">>

\* `Item ${index}`
ItemLabel(index) == <<"I", "t", "e", "m", " ">> \o JSString(index)

\* `if (val) parts.push(`${label}: ${val}`)`
PushPart(val, label) == IF val = <<>> THEN <<>> ELSE <<label \o ColonSpace \o val>>

\* one field of describeItem: stripLabel, then the push
DescribePart(v, label) == PushPart(stripLabel(v, label), label)

\* parts.length ? parts.join(", ") : `Item ${index}`
JoinParts(parts, index) ==
  IF parts # <<>> THEN Join(parts, CommaSpace) ELSE ItemLabel(index)

\* describeItem(item, index).  An item is a record; nil marks a null element.
describeItem(item, index) ==
  IF item.nil THEN ItemLabel(index)
  ELSE JoinParts(DescribePart(item.preset, LabelPreset)
                 \o DescribePart(item.handleType, LabelHandleType)
                 \o DescribePart(item.mugType, LabelMugType)
                 \o DescribePart(item.mugColor, LabelMugColor)
                 \o DescribePart(item.replacementName, LabelReplacementName),
                 index)

\* Number(it?.quantity) > 0 ? Number(it.quantity) : 1, q being Number(it?.quantity)
QuantityOf(q) == IF q.t = "number" /\ q.n > 0 THEN q ELSE Num(10)

\* the object `item` that normalizeCart builds for `it` at 0-based position idx
CleanItem(it, idx) ==
  [nil |-> FALSE,
   preset |-> Str(stripLabel(it.preset, LabelPreset)),
   handleType |-> Str(stripLabel(it.handleType, LabelHandleType)),
   mugType |-> Str(stripLabel(it.mugType, LabelMugType)),
   mugColor |-> Str(stripLabel(it.mugColor, LabelMugColor)),
   replacementName |-> Str(stripLabel(it.replacementName, LabelReplacementName)),
   quantity |-> QuantityOf(ToNumber(it.quantity)),
   price |-> numFromPrice(it.price),
   line |-> Num((idx + 1) * 10),
   name |-> Undef,
   gift |-> it.gift]

\* { ...it, ...item, _name: describeItem(item, idx + 1) }: CleanItem has taken
\* the one key of `it` that `item` does not overwrite (gift)
WithName(item, idx) ==
  [item EXCEPT !.name = Str(describeItem(item, Num((idx + 1) * 10)))]

\* one element of normalizeCart's map
normalizeItem(it, idx) == WithName(CleanItem(it, idx), idx)

\* normalizeCart(items): [] unless items is an array.  An array value is a
\* record [arr, elems]: arr says whether the value is an array at all.
normalizeCart(items) ==
  IF ~items.arr THEN <<>>
  ELSE [k \in 1..Len(items.elems) |-> normalizeItem(items.elems[k], k - 1)]

\* Number.isFinite(Number(it.price)) ? Number(it.price) : 0, p being Number(it.price)
FiniteOrZero(p) == IF IsFinite(p) THEN p ELSE Num(0)

\* one element of toTemplateItems' map
TemplateItem(it) ==
  [name |-> IF Falsy(it.name) THEN describeItem(it, OrElse(it.line, Num(10)))
            ELSE JSString(it.name),
   quantity |-> OrElse(it.quantity, Num(10)),
   price |-> FiniteOrZero(ToNumber(it.price))]

\* toTemplateItems(cart)
toTemplateItems(cart) == [k \in 1..Len(cart) |-> TemplateItem(cart[k])]

(***************************************************************************)
(* Metadata written at initiation and read back by the webhook             *)
(***************************************************************************)
PipeSep == <<" ", "|", " ">>

\* `Item ${i + 1}: ${it._name} (x${it.quantity}) @ R${it.price}`, i 0-based
EncodeLine(it, i) ==
  ItemLabel(Num((i + 1) * 10)) \o ColonSpace \o JSString(it.name)
  \o <<" ", "(", "x">> \o JSString(it.quantity)
  \o <<")", " ", "@", " ", "R">> \o JSString(it.price)

\* cartItemsForMetadata
EncodeCart(normalized) ==
  Join([k \in 1..Len(normalized) |-> EncodeLine(normalized[k], k - 1)], PipeSep)

NameFullName == <<"f", "u", "l", "l", "_", "n", "a", "m", "e">>

NamePhoneNumber == <<"p", "h", "o", "n", "e", "_", "n", "u", "m", "b", "e", "r">>

NameDeliveryMethod == <<"d", "e", "l", "i", "v", "e", "r", "y", "_", "m", "e", "t", "h", "o", "d">>

NameCartItems == <<"c", "a", "r", "t", "_", "i", "t", "e", "m", "s">>

NoItemsText == <<"N", "o", " ", "i", "t", "e", "m", "s">>

ChargeSuccess == <<"c", "h", "a", "r", "g", "e", ".", "s", "u", "c", "c", "e", "s", "s">>

\* an entry of metadata.custom_fields; nil marks a null entry
Field(name, value) == [nil |-> FALSE, variable_name |-> Str(name), value |-> value]

NilField == [nil |-> TRUE, variable_name |-> Undef, value |-> Undef]

\* an array value and a value that is no array
Arr(elems) == [arr |-> TRUE, elems |-> elems]

NotArr == [arr |-> FALSE, elems |-> <<>>]

NoCustomer == [full_name |-> Undef, phone |-> Undef, email |-> Undef]

\* the fields index_b reads straight off metadata (metadata.full_name, ...)
NoFlat == [full_name |-> Undef, email |-> Undef, phone_number |-> Undef,
           delivery_method |-> Undef, cart_items |-> Undef]

\* metadata that is absent
NoMeta == [present |-> FALSE, cart |-> NotArr, delivery_method |-> Undef,
           customer |-> NoCustomer, custom_fields |-> NotArr, flat |-> NoFlat]

(***************************************************************************)
(* The webhook's fallback parse of the cart_items text (part_001)          *)
(***************************************************************************)
OpenX == <<"(", "x">>

AtR == <<"@", " ", "R">>

\* /\(x(\d+)\)/i matches at i
QtyAt(s, i) == /\ HasAtI(s, OpenX, i)
               /\ i + 2 <= Len(s)
               /\ IsDigit(s[i + 2])
               /\ SkipDigits(s, i + 2) <= Len(s)
               /\ s[SkipDigits(s, i + 2)] = ")"

\* /@ R([0-9]+(?:\.[0-9]+)?)/i matches at i
PriceAt(s, i) == HasAtI(s, AtR, i) /\ i + 3 <= Len(s) /\ IsDigit(s[i + 3])

\* where "@ R" must stand for /\(x\d+\)\s*@ R[0-9.]+/i to match at i
AfterQty(s, i) == SkipSpaces(s, SkipDigits(s, i + 2) + 1)

\* "@ R" and at least one of [0-9.] stand at a
AtRNumberAt(s, a) == HasAtI(s, AtR, a) /\ a + 3 <= Len(s) /\ SkipNumChars(s, a + 3) > a + 3

\* /\(x\d+\)\s*@ R[0-9.]+/i matches at i
SuffixAt(s, i) == QtyAt(s, i) /\ AtRNumberAt(s, AfterQty(s, i))

QtyStarts(s) == {i \in 1..Len(s) : QtyAt(s, i)}

PriceStarts(s) == {i \in 1..Len(s) : PriceAt(s, i)}

SuffixStarts(s) == {i \in 1..Len(s) : SuffixAt(s, i)}

\* the line without the match that starts at i and has its "@ R" at a
CutSuffix(line, i, a) == SubSeq(line, 1, i - 1) \o From(line, SkipNumChars(line, a + 3))

CutSuffixAt(line, i) == CutSuffix(line, i, AfterQty(line, i))

\* line.replace(/\(x\d+\)\s*@ R[0-9.]+/i, "").trim()
ParsedName(line) ==
  IF SuffixStarts(line) = {} THEN Trim(line)
  ELSE Trim(CutSuffixAt(line, Least(SuffixStarts(line))))

\* Number(qtyMatch[1]) for the match at i
QtyValue(line, i) == Num(DigitsValue(line, i + 2, SkipDigits(line, i + 2)) * 10)

\* qtyMatch ? Number(qtyMatch[1]) : 1
ParsedQuantity(line) ==
  IF QtyStarts(line) = {} THEN Num(10) ELSE QtyValue(line, Least(QtyStarts(line)))

\* priceMatch ? Number(priceMatch[1]) : 0
ParsedPrice(line) ==
  IF PriceStarts(line) = {} THEN Num(0)
  ELSE Num(DecimalAt(line, Least(PriceStarts(line)) + 3))

\* the object the fallback builds for one line
ParseLine(line) ==
  [name |-> ParsedName(line), quantity |-> ParsedQuantity(line), price |-> ParsedPrice(line)]

\* the lines that filter(Boolean) keeps
RECURSIVE NonEmpty(_)
NonEmpty(lines) == IF lines = <<>> THEN <<>>
                   ELSE IF Head(lines) = <<>> THEN NonEmpty(Tail(lines))
                   ELSE <<Head(lines)>> \o NonEmpty(Tail(lines))

ParseLines(lines) == [k \in 1..Len(lines) |-> ParseLine(lines[k])]

\* cartItemsString.split(" | ").filter(Boolean).map(...)
ParseCartItems(text) == ParseLines(NonEmpty(Split(text, PipeSep)))

\* array.find(f => f.variable_name === name): reading variable_name of a null
\* entry throws before any later entry is looked at
RECURSIVE FindField(_, _)
FindField(fields, name) ==
  IF fields = <<>> THEN [threw |-> FALSE, found |-> FALSE, value |-> Undef]
  ELSE IF Head(fields).nil THEN [threw |-> TRUE, found |-> FALSE, value |-> Undef]
  ELSE IF Head(fields).variable_name = Str(name)
       THEN [threw |-> FALSE, found |-> TRUE, value |-> Head(fields).value]
       ELSE FindField(Tail(fields), name)

\* (Array.isArray(meta.custom_fields) ? meta.custom_fields : []).find(...)
LookupField(meta, name) ==
  FindField(IF meta.custom_fields.arr THEN meta.custom_fields.elems ELSE <<>>, name)

(***************************************************************************)
(* State                                                                   *)
(***************************************************************************)
VARIABLES
  rev,        \* the revision that is deployed
  secretSet,  \* whether PAYSTACK_SECRET_KEY is set in the environment
  pc,         \* "idle", "gateway" (awaiting axios.post), "email1", "email2"
              \* (awaiting sendEmailWithTemplate), "done"
  req,        \* the request being handled
  res,        \* its response: how many were sent, the status, the body
  calls,      \* the outbound calls made for it, in order
  local,      \* the handler's local variables
  log,        \* what it wrote with console.error
  stored      \* the gateway: the payload of the initialized transaction

vars == <<rev, secretSet, pc, req, res, calls, local, log, stored>>

Revisions == {"part_001", "part_000", "part_002", "index_a", "index_b", "index_c"}

\* the revisions that have the /paystack-webhook route
HasWebhook(r) == r \in {"part_001", "index_b", "index_c"}

NoPayBody == [amount |-> Undef, items |-> NotArr, deliveryMethod |-> Undef,
              phoneValue |-> Undef, emailValue |-> Undef, fullNameValue |-> Undef]

NoData == [present |-> FALSE, customerEmail |-> Undef, amount |-> Undef, metadata |-> NoMeta]

\* a request without a JSON body: req.rawBody is not set, req.body is {}
NoHookBody == [raw |-> FALSE, event |-> Undef, data |-> NoData]

\* no x-paystack-signature header
NoSig == [present |-> FALSE, key |-> "", msg |-> NoHookBody]

\* no initialize payload
NoPayload == [email |-> Undef, amount |-> Undef, metadata |-> NoMeta]

\* echoOf: the initialize payload a gateway notification reports on
NoReq == [route |-> "none", pay |-> NoPayBody, hook |-> NoHookBody, sig |-> NoSig,
          echoOf |-> NoPayload]

NoBody == [kind |-> "none", value |-> "", error |-> ""]

NoRes == [sent |-> 0, status |-> 0, body |-> NoBody]

NoStored == [has |-> FALSE, payload |-> NoPayload]

NoLocal == [normalized |-> <<>>, computedTotal |-> Cents(0), totalAmount |-> Cents(0),
            cartItems |-> <<>>, data |-> "", recart |-> <<>>, itemsArray |-> <<>>,
            fallback |-> FALSE]

\* a response object that lets a second send through
RespondAgain(r, status, body) == [sent |-> r.sent + 1, status |-> status, body |-> body]

\* res.status(status).json(body) / res.send(body) / res.sendStatus(status): a
\* second send throws (ERR_HTTP_HEADERS_SENT) and leaves the first one standing
Respond(r, status, body) ==
  IF r.sent > 0 THEN r ELSE [sent |-> 1, status |-> status, body |-> body]

ErrorBody(e) == [kind |-> "error", value |-> "", error |-> e]

DataBody(d) == [kind |-> "data", value |-> d, error |-> ""]

\* sendStatus writes the status text
StatusBody == [kind |-> "status", value |-> "", error |-> ""]

\* the TemplateModel of a sendEmailWithTemplate call
NoModel == [fullNameValue |-> Undef, emailValue |-> Undef, phoneValue |-> Undef,
            deliveryMethod |-> Undef, amount |-> Undef, items |-> <<>>]

\* axios.post(".../transaction/initialize", payload, ...)
GatewayCall(payload) == [kind |-> "gateway", to |-> Undef, payload |-> payload,
                         model |-> NoModel]

\* postmarkClient.sendEmailWithTemplate({To: to, TemplateModel: model, ...})
EmailCall(to, model) == [kind |-> "email", to |-> to, payload |-> NoPayload,
                         model |-> model]

\* a handler that has answered and returned
Done(r, cs, loc, lg) == [pc |-> "done", res |-> r, calls |-> cs, local |-> loc, log |-> lg]

\* a handler that waits at an await
Await(at, r, cs, loc) == [pc |-> at, res |-> r, calls |-> cs, local |-> loc, log |-> <<>>]

(***************************************************************************)
(* POST /pay                                                               *)
(***************************************************************************)
MsgMissingCustomer == "Missing customer details."

MsgBadCart == "Cart is empty or invalid."

\* !emailValue || !phoneValue || !fullNameValue
MissingCustomer(b) == Falsy(b.emailValue) \/ Falsy(b.phoneValue) \/ Falsy(b.fullNameValue)

\* a check that lets the empty array through
BadCartOnlyNonArray(b) == ~b.items.arr

\* !Array.isArray(items) || items.length === 0
BadCart(b) == ~b.items.arr \/ Len(b.items.elems) = 0

\* normalized.reduce((s, it) => s + it.price * (it.quantity || 1), 0), in hundredths
RECURSIVE ComputedTotal(_)
ComputedTotal(normalized) ==
  IF normalized = <<>> THEN 0
  ELSE Head(normalized).price.n * OrElse(Head(normalized).quantity, Num(10)).n
       + ComputedTotal(Tail(normalized))

\* a rule that also takes a declared amount of 0
TotalAmountFromZero(n, computedTotal) ==
  IF IsFinite(n) /\ n.n >= 0 THEN Cents(n.n * 10) ELSE Cents(computedTotal)

\* Number.isFinite(Number(amount)) && Number(amount) > 0 ? Number(amount)
\* : computedTotal, n being Number(amount)
TotalAmount(n, computedTotal) ==
  IF IsFinite(n) /\ n.n > 0 THEN Cents(n.n * 10) ELSE Cents(computedTotal)

\* Math.round(totalAmount * 100): a total in hundredths is the minor-unit amount
Kobo(totalAmount) == totalAmount

\* deliveryMethod || ""
DeliveryOrEmpty(b) == OrElse(b.deliveryMethod, Str(<<>>))

\* initPayload.metadata of part_001 (display_name, which nothing reads, left out)
InitMetadata(b, normalized, cartItems) ==
  [present |-> TRUE,
   cart |-> Arr(normalized),
   delivery_method |-> DeliveryOrEmpty(b),
   customer |-> [full_name |-> b.fullNameValue, phone |-> b.phoneValue,
                 email |-> b.emailValue],
   custom_fields |-> Arr(<<Field(NameFullName, b.fullNameValue),
                           Field(NamePhoneNumber, b.phoneValue),
                           Field(NameDeliveryMethod, DeliveryOrEmpty(b)),
                           Field(NameCartItems, OrElse(Str(cartItems), Str(NoItemsText)))>>),
   flat |-> NoFlat]

\* initPayload of part_001
InitPayload(b, normalized, totalAmount, cartItems) ==
  [email |-> b.emailValue, amount |-> Kobo(totalAmount),
   metadata |-> InitMetadata(b, normalized, cartItems)]

\* the handler's locals at its await
PayLocals(normalized, computedTotal, totalAmount, cartItems) ==
  [NoLocal EXCEPT !.normalized = normalized,
                  !.computedTotal = Cents(computedTotal),
                  !.totalAmount = totalAmount,
                  !.cartItems = cartItems]

\* const { data } = await axios.post(..., initPayload, ...)
PayCall001(b, normalized, computedTotal, totalAmount, cartItems) ==
  Await("gateway", NoRes,
        <<GatewayCall(InitPayload(b, normalized, totalAmount, cartItems))>>,
        PayLocals(normalized, computedTotal, totalAmount, cartItems))

\* totalAmount and cartItemsForMetadata once computedTotal is known
PayTotals001(b, normalized, computedTotal) ==
  PayCall001(b, normalized, computedTotal,
             TotalAmount(ToNumber(b.amount), computedTotal), EncodeCart(normalized))

\* the handler once normalized = normalizeCart(items) is known
PayValidated001(b, normalized) == PayTotals001(b, normalized, ComputedTotal(normalized))

\* the handler of part_001 up to its await
PayStart001(b) ==
  IF MissingCustomer(b) THEN Done(Respond(NoRes, 400, ErrorBody(MsgMissingCustomer)),
                                  <<>>, NoLocal, <<>>)
  ELSE IF BadCart(b) THEN Done(Respond(NoRes, 400, ErrorBody(MsgBadCart)),
                               <<>>, NoLocal, <<>>)
  ELSE PayValidated001(b, normalizeCart(b.items))

\* the metadata of the other revisions: custom_fields only.  Their cart_items
\* entry is built by their own describeItem and is read by no later step of
\* theirs that the model follows, so it is not carried.
LegacyMetadata(b, dm) ==
  [NoMeta EXCEPT !.present = TRUE,
                 !.custom_fields = Arr(<<Field(NameFullName, b.fullNameValue),
                                         Field(NamePhoneNumber, b.phoneValue),
                                         Field(NameDeliveryMethod, dm)>>)]

\* { ...it, quantity, price, _line: idx + 1 }, q and p being Number(it?.quantity)
\* and Number(it?.price), k = idx + 1
LegacyItem(it, q, p, k) ==
  [it EXCEPT !.quantity = QuantityOf(q),
             !.price = FiniteOrZero(p),
             !.line = Num(k * 10),
             !.nil = FALSE]

\* the items.map(...) that normalizes quantity and price in the older revisions
legacyNormalize(items) ==
  [k \in 1..Len(items.elems) |->
     LegacyItem(items.elems[k], ToNumber(items.elems[k].quantity),
                ToNumber(items.elems[k].price), k)]

PayCallLegacy(b, normalized, computedTotal, totalAmount) ==
  Await("gateway", NoRes,
        <<GatewayCall([email |-> b.emailValue, amount |-> Kobo(totalAmount),
                       metadata |-> LegacyMetadata(b, DeliveryOrEmpty(b))])>>,
        PayLocals(normalized, computedTotal, totalAmount, <<>>))

PayTotalsLegacy(b, normalized, computedTotal) ==
  PayCallLegacy(b, normalized, computedTotal,
                TotalAmount(ToNumber(b.amount), computedTotal))

PayValidatedLegacy(b, normalized) ==
  PayTotalsLegacy(b, normalized, ComputedTotal(normalized))

\* /pay of part_000 and of the second and third server of index.js, up to the await
PayStartLegacyValidating(b) ==
  IF MissingCustomer(b) THEN Done(Respond(NoRes, 400, ErrorBody(MsgMissingCustomer)),
                                  <<>>, NoLocal, <<>>)
  ELSE IF BadCart(b) THEN Done(Respond(NoRes, 400, ErrorBody(MsgBadCart)),
                               <<>>, NoLocal, <<>>)
  ELSE PayValidatedLegacy(b, legacyNormalize(b.items))

\* amount * 100, n being the number amount converts to
TimesHundred(n) == IF IsFinite(n) THEN Cents(n.n * 10) ELSE NaN

\* /pay of the first server of index.js and of part_002: the gateway is called
\* with whatever arrived
PayStartUnchecked(b) ==
  Await("gateway", NoRes,
        <<GatewayCall([email |-> b.emailValue,
                       amount |-> TimesHundred(ToNumber(b.amount)),
                       metadata |-> LegacyMetadata(b, b.deliveryMethod)])>>,
        NoLocal)

PayStart(r, b) ==
  CASE r = "part_001" -> PayStart001(b)
    [] r \in {"part_000", "index_b", "index_c"} -> PayStartLegacyValidating(b)
    [] OTHER -> PayStartUnchecked(b)

(***************************************************************************)
(* Item names of the revisions that send the receipt from /pay             *)
(***************************************************************************)
ItemWord == <<"i", "t", "e", "m">>

\* a key of an item that is none of the known fields
KeyGift == <<"g", "i", "f", "t">>

\* /^item\s*\d+$/i on a trimmed text t, d being where the digits must start
PlaceholderText(t, d) ==
  HasAtI(t, ItemWord, 1) /\ d <= Len(t) /\ SkipDigits(t, d) = Len(t) + 1

PlaceholderTrimmed(t) == PlaceholderText(t, SkipSpaces(t, Len(ItemWord) + 1))

\* isPlaceholder of part_000
isPlaceholder(v) == v.t = "string" /\ PlaceholderTrimmed(Trim(v.s))

\* asReadable of part_000, for the values of the model (no arrays, no objects)
asReadable(v) ==
  CASE v.t \in {"undefined", "null"} -> <<>>
    [] v.t = "string" -> Trim(v.s)
    [] v.t = "boolean" -> IF v.n = 1 THEN <<"Y", "e", "s">> ELSE <<"N", "o">>
    [] OTHER -> JSString(v)

\* one pass of the knownFields loop of part_000: a field the item has (here:
\* that is not undefined), that is no placeholder preset and reads as a
\* non-empty text
KnownPart(v, label, isPreset) ==
  IF v.t = "undefined" \/ (isPreset /\ isPlaceholder(v)) THEN <<>>
  ELSE PushPart(asReadable(v), label)

\* k.replace(/[_-]+/g, " ")
RECURSIVE Unsep(_)
Unsep(k) ==
  IF k = <<>> THEN <<>>
  ELSE IF Head(k) \in {"_", "-"}
  THEN IF Len(k) > 1 /\ k[2] \in {"_", "-"} THEN Unsep(Tail(k)) ELSE <<" ">> \o Unsep(Tail(k))
  ELSE <<Head(k)>> \o Unsep(Tail(k))

ToUpper(c) == IF \E i \in 1..26 : Lower[i] = c
              THEN Upper[CHOOSE i \in 1..26 : Lower[i] = c]
              ELSE c

\* \w
IsWordChar(c) == IsDigit(c) \/ c = "_" \/ \E i \in 1..26 : Lower[i] = ToLower(c)

\* .replace(/\b\w/g, c => c.toUpperCase()) on a text t
Capitalized(t) ==
  [i \in 1..Len(t) |-> IF IsWordChar(t[i]) /\ (i = 1 \/ ~IsWordChar(t[i - 1]))
                       THEN ToUpper(t[i]) ELSE t[i]]

\* toTitle of part_000
toTitle(k) == Capitalized(Unsep(k))

\* one entry of `rest`: a key outside the skip set whose value is neither null
\* nor undefined nor blank as a string
RestPart(v, key) ==
  IF v.t \in {"undefined", "null"} \/ Trim(JSString(v)) = <<>> THEN <<>>
  ELSE <<toTitle(key) \o ColonSpace \o asReadable(v)>>

\* the pass over the remaining keys: every key of the item but those of the
\* skip set (preset, quantity, price, _line among them)
RestParts(item) ==
  RestPart(item.handleType, <<"h", "a", "n", "d", "l", "e", "T", "y", "p", "e">>)
  \o RestPart(item.mugType, <<"m", "u", "g", "T", "y", "p", "e">>)
  \o RestPart(item.mugColor, <<"m", "u", "g", "C", "o", "l", "o", "r">>)
  \o RestPart(item.replacementName, <<"r", "e", "p", "l", "a", "c", "e", "m", "e", "n", "t", "N", "a", "m", "e">>)
  \o RestPart(item.gift, KeyGift)

\* the known fields of part_000 that an item of the model can carry
KnownParts000(item) ==
  KnownPart(item.preset, LabelPreset, TRUE)
  \o KnownPart(item.handleType, LabelHandleType, FALSE)
  \o KnownPart(item.mugType, LabelMugType, FALSE)
  \o KnownPart(item.mugColor, LabelMugColor, FALSE)
  \o KnownPart(item.replacementName, LabelReplacementName, FALSE)

\* the end of describeItem of part_000, parts being what the known fields gave
DescribeRest000(parts, item, index) ==
  JoinParts(IF parts = <<>> THEN RestParts(item) ELSE parts, index)

\* describeItem of part_000 for the items of the model, which are objects
describeItem000(item, index) == DescribeRest000(KnownParts000(item), item, index)

\* formattedItems of part_000
FormattedItems000(normalized) ==
  [k \in 1..Len(normalized) |->
     [name |-> describeItem000(normalized[k], Num(k * 10)),
      quantity |-> normalized[k].quantity,
      price |-> normalized[k].price]]

\* `if (item.f) nameParts.push(`Label: ${item.f}`)` of the first server of index.js
TruthyPart(v, label) ==
  IF Falsy(v) THEN <<>> ELSE <<label \o ColonSpace \o JSString(v)>>

\* `${key}: ${val}` for a key the item has
EntryPart(v, key) ==
  IF v.t = "undefined" THEN <<>> ELSE <<key \o ColonSpace \o JSString(v)>>

\* the named fields of an item that are truthy
KnownEntries(it) ==
  TruthyPart(it.preset, LabelPreset)
  \o TruthyPart(it.handleType, LabelHandleType)
  \o TruthyPart(it.mugType, LabelMugType)
  \o TruthyPart(it.mugColor, LabelMugColor)
  \o TruthyPart(it.replacementName, LabelReplacementName)

\* Object.entries(item) in the order preset, handleType, mugType, mugColor,
\* replacementName, quantity, price, gift
AllEntries(it) ==
  EntryPart(it.preset, <<"p", "r", "e", "s", "e", "t">>)
  \o EntryPart(it.handleType, <<"h", "a", "n", "d", "l", "e", "T", "y", "p", "e">>)
  \o EntryPart(it.mugType, <<"m", "u", "g", "T", "y", "p", "e">>)
  \o EntryPart(it.mugColor, <<"m", "u", "g", "C", "o", "l", "o", "r">>)
  \o EntryPart(it.replacementName, <<"r", "e", "p", "l", "a", "c", "e", "m", "e", "n", "t", "N", "a", "m", "e">>)
  \o EntryPart(it.quantity, <<"q", "u", "a", "n", "t", "i", "t", "y">>)
  \o EntryPart(it.price, <<"p", "r", "i", "c", "e">>)
  \o EntryPart(it.gift, KeyGift)

\* nameParts.length > 0 ? nameParts.join(", ") : the entries joined
NameOfEntries(known, it) ==
  Join(IF known = <<>> THEN AllEntries(it) ELSE known, CommaSpace)

\* one element of formattedItems of the first server of index.js
FormattedItemA(it) ==
  [name |-> NameOfEntries(KnownEntries(it), it),
   quantity |-> OrElse(it.quantity, Num(10)),
   price |-> OrElse(it.price, Num(0))]

FormattedItemsA(items) == [k \in 1..Len(items) |-> FormattedItemA(items[k])]

(***************************************************************************)
(* The gateway answers /pay's call                                         *)
(***************************************************************************)
\* paystackRes.data
InitializeResponse == "initialize response"

ErrMessage == "error message"

LogPayError == "Error initializing payment"

\* err?.response?.data || err.message
ErrorOf(outcome) == IF outcome = "rejected" THEN "gateway error payload" ELSE ErrMessage

\* the TemplateModel of the receipt that part_000 sends from /pay
ReceiptModel000(b, loc) ==
  [fullNameValue |-> b.fullNameValue,
   emailValue |-> b.emailValue,
   phoneValue |-> b.phoneValue,
   deliveryMethod |-> DeliveryOrEmpty(b),
   amount |-> loc.totalAmount,
   items |-> FormattedItems000(loc.normalized)]

\* the TemplateModel of the receipt that the first server of index.js sends
ReceiptModelA(b) ==
  [fullNameValue |-> b.fullNameValue,
   emailValue |-> b.emailValue,
   phoneValue |-> b.phoneValue,
   deliveryMethod |-> b.deliveryMethod,
   amount |-> b.amount,
   items |-> FormattedItemsA(b.items.elems)]

\* the receipt sent from /pay once the gateway has answered
PayReceipt(r, b, loc) ==
  EmailCall(b.emailValue, IF r = "part_000" THEN ReceiptModel000(b, loc) ELSE ReceiptModelA(b))

\* items.map(item => ... item.preset ...) throws when items is no array or holds null
FormatThrowsA(b) == ~b.items.arr \/ \E k \in 1..Len(b.items.elems) : b.items.elems[k].nil

PayFailed(cs, loc, e) ==
  Done(Respond(NoRes, 500, ErrorBody(e)), cs, loc, <<LogPayError>>)

\* a continuation that takes a rejection with a payload for a success
PayAfterGatewayLenient(r, b, loc, cs, outcome) ==
  IF outcome = "unreachable" THEN PayFailed(cs, loc, ErrorOf(outcome))
  ELSE IF r \in {"part_001", "part_002", "index_b", "index_c"}
  THEN Done(Respond(NoRes, 200, DataBody(InitializeResponse)), cs, loc, <<>>)
  ELSE IF r = "index_a" /\ FormatThrowsA(b) THEN PayFailed(cs, loc, ErrMessage)
  ELSE Await("email1", NoRes, Append(cs, PayReceipt(r, b, loc)),
             [loc EXCEPT !.data = InitializeResponse])

\* what follows `await axios.post(...)` in /pay
PayAfterGateway(r, b, loc, cs, outcome) ==
  IF outcome # "ok" THEN PayFailed(cs, loc, ErrorOf(outcome))
  ELSE IF r \in {"part_001", "part_002", "index_b", "index_c"}
  THEN Done(Respond(NoRes, 200, DataBody(InitializeResponse)), cs, loc, <<>>)
  ELSE IF r = "index_a" /\ FormatThrowsA(b) THEN PayFailed(cs, loc, ErrMessage)
  ELSE Await("email1", NoRes, Append(cs, PayReceipt(r, b, loc)),
             [loc EXCEPT !.data = InitializeResponse])

\* what follows `await postmarkClient.sendEmailWithTemplate(...)` in /pay
PayAfterEmail(loc, cs, sent) ==
  IF sent THEN Done(Respond(NoRes, 200, DataBody(loc.data)), cs, loc, <<>>)
  ELSE PayFailed(cs, loc, ErrMessage)

(***************************************************************************)
(* POST /paystack-webhook of part_001                                      *)
(***************************************************************************)
SecretKey == "PAYSTACK_SECRET_KEY"

\* crypto.createHmac("sha512", key).update(msg).digest("hex"): the digest
\* names its key and its message, so two digests agree only when both agree
Hmac(key, msg) == [present |-> TRUE, key |-> key, msg |-> msg]

\* !(!signature || hash !== signature)
SignatureOk(sig, b) == sig.present /\ sig = Hmac(SecretKey, b)

\* a test that takes every named event for a successful charge
IsAnyEvent(b) == b.event.t = "string"

\* event.event === "charge.success"
IsChargeSuccess(b) == b.event = Str(ChargeSuccess)

\* data.metadata || {}
MetaOf(data) == IF data.metadata.present THEN data.metadata ELSE NoMeta

\* a test that passes the structured cart by when there is a text to parse
HasCartAndNoFields(meta) ==
  meta.cart.arr /\ Len(meta.cart.elems) > 0 /\ ~meta.custom_fields.arr

\* Array.isArray(meta.cart) && meta.cart.length
HasStructuredCart(meta) == meta.cart.arr /\ Len(meta.cart.elems) > 0

LogMismatch == "Webhook signature mismatch"

LogNoEmail == "Webhook: customer email missing; cannot send receipt."

LogWebhookError == "Error handling webhook"

\* itemsArray = toTemplateItems(normalizeCart(meta.cart)), recart being
\* normalizeCart(meta.cart)
StructuredItems(recart) ==
  [threw |-> FALSE, fallback |-> FALSE, recart |-> recart,
   itemsArray |-> toTemplateItems(recart)]

\* cartItemsString.split(" | ")...: split is no function of a value that is no
\* string
FallbackOfText(threw, text) ==
  [threw |-> threw \/ text.t # "string", fallback |-> TRUE, recart |-> <<>>,
   itemsArray |-> IF threw \/ text.t # "string" THEN <<>> ELSE ParseCartItems(text.s)]

\* cartItemsString = (...).find(...)?.value || "", f being what find gave
FallbackItems(f) == FallbackOfText(f.threw, OrElse(f.value, Str(<<>>)))

\* the if/else that builds itemsArray.  threw says that an exception left it.
ItemsArray(meta) ==
  IF HasStructuredCart(meta) THEN StructuredItems(normalizeCart(meta.cart))
  ELSE FallbackItems(LookupField(meta, NameCartItems))

\* find(...)?.value || ""
ValueOrEmpty(f) == [threw |-> f.threw, value |-> OrElse(f.value, Str(<<>>))]

\* a || find(...)?.value || "": the lookup runs only when a is falsy
PreferOrLookup(a, meta, name) ==
  IF ~Falsy(a) THEN [threw |-> FALSE, value |-> a]
  ELSE ValueOrEmpty(LookupField(meta, name))

\* Number(((data.amount || 0) / 100).toFixed(2)) for an amount that is absent or
\* a whole count of the minor unit: the same count, of hundredths of the major unit
AmountRand(amount) == IF Falsy(amount) \/ amount.t # "cents" THEN Cents(0) ELSE amount

\* the TemplateModel of both sends
TemplateModel001(data, fullNameValue, phoneValue, deliveryMethod, itemsArray) ==
  [fullNameValue |-> fullNameValue,
   emailValue |-> data.customerEmail,
   phoneValue |-> phoneValue,
   deliveryMethod |-> deliveryMethod,
   amount |-> AmountRand(data.amount),
   items |-> itemsArray]

\* the catch block: console.error, then sendStatus(200) inside its own try
CatchWebhook001(r) == Done(Respond(r, 200, StatusBody), <<>>, NoLocal, <<LogWebhookError>>)

\* from the lookups to the first await; ack is the response already sent
WebhookSend001(data, ack, items, fullName, phone, delivery) ==
  IF items.threw \/ fullName.threw \/ phone.threw \/ delivery.threw
  THEN CatchWebhook001(ack)
  ELSE Await("email1", ack,
             <<EmailCall(data.customerEmail,
                         TemplateModel001(data, fullName.value, phone.value,
                                          delivery.value, items.itemsArray))>>,
             [NoLocal EXCEPT !.recart = items.recart,
                             !.itemsArray = items.itemsArray,
                             !.fallback = items.fallback])

\* from `const meta` on
WebhookReceipt001(data, meta, ack) ==
  WebhookSend001(data, ack, ItemsArray(meta),
                 PreferOrLookup(meta.customer.full_name, meta, NameFullName),
                 PreferOrLookup(meta.customer.phone, meta, NamePhoneNumber),
                 PreferOrLookup(meta.delivery_method, meta, NameDeliveryMethod))

\* from the acknowledgment on
WebhookAcked001(data, ack) ==
  IF Falsy(data.customerEmail) THEN Done(ack, <<>>, NoLocal, <<LogNoEmail>>)
  ELSE WebhookReceipt001(data, MetaOf(data), ack)

\* the handler up to its first await.  createHmac throws on an undefined key,
\* and the catch block answers 200.
WebhookStart001(b, sig, secret) ==
  IF ~secret THEN CatchWebhook001(NoRes)
  ELSE IF ~SignatureOk(sig, b)
  THEN Done(Respond(NoRes, 400, StatusBody), <<>>, NoLocal, <<LogMismatch>>)
  ELSE IF ~IsChargeSuccess(b) THEN Done(Respond(NoRes, 200, StatusBody), <<>>, NoLocal, <<>>)
  ELSE WebhookAcked001(b.data, Respond(NoRes, 200, StatusBody))

SalesAddress == Str(<<"s", "a", "l", "e", "s", "@", "s", "i", "w", "a", "k", "h", "e", "l", "w", "e", "h", "o", "l", "d", "i", "n", "g", "s", ".", "c", "o", ".", "z", "a">>)

\* a continuation that sends the internal copy whether or not the customer's
\* receipt went out
WebhookAfterEmailRegardless(at, r, cs, loc, sent) ==
  IF at = "email1"
  THEN Await("email2", r, Append(cs, EmailCall(SalesAddress, cs[1].model)), loc)
  ELSE IF ~sent THEN Done(Respond(r, 200, StatusBody), cs, loc, <<LogWebhookError>>)
  ELSE Done(r, cs, loc, <<>>)

\* what follows each await of the webhook: the internal copy after the
\* customer's receipt, nothing after the copy, the catch block after a failure
WebhookAfterEmail001(at, r, cs, loc, sent) ==
  IF ~sent THEN Done(Respond(r, 200, StatusBody), cs, loc, <<LogWebhookError>>)
  ELSE IF at = "email1"
  THEN Await("email2", r, Append(cs, EmailCall(SalesAddress, cs[1].model)), loc)
  ELSE Done(r, cs, loc, <<>>)

(***************************************************************************)
(* POST /paystack-webhook of the second server of index.js (index_b)       *)
(***************************************************************************)
LogEmailError == "Error sending email"

FlatLines(lines) ==
  [k \in 1..Len(lines) |-> [name |-> lines[k], quantity |-> Num(10), price |-> Num(0)]]

\* cartItems.split(" | ").map((desc, i) => ({name: desc, quantity: 1, price: 0}))
FlatItems(text) == FlatLines(Split(text, PipeSep))

\* data.amount / 100 for an amount that is a whole count of the minor unit, null
\* or absent
AmountOver100(amount) == IF amount.t = "cents" THEN amount
                         ELSE IF amount.t = "null" THEN Cents(0) ELSE NaN

\* the catch block of index_b and index_c
CatchLegacy(cs) == Done(Respond(NoRes, 500, StatusBody), cs, NoLocal, <<LogEmailError>>)

\* the send, d being event.data, m its metadata and to the address
WebhookSendB(d, m, to) ==
  Await("email1", NoRes,
        <<EmailCall(to, [fullNameValue |-> m.flat.full_name,
                         emailValue |-> to,
                         phoneValue |-> m.flat.phone_number,
                         deliveryMethod |-> m.flat.delivery_method,
                         amount |-> AmountOver100(d.amount),
                         items |-> FlatItems(m.flat.cart_items.s)])>>,
        NoLocal)

\* the charge.success branch: data.metadata.full_name throws without data or
\* metadata, cartItems.split without a string
WebhookChargeB(d, m) ==
  IF ~d.present \/ ~m.present \/ m.flat.cart_items.t # "string" THEN CatchLegacy(<<>>)
  ELSE WebhookSendB(d, m, OrElse(d.customerEmail, m.flat.email))

\* the handler up to its await: no signature is read
WebhookStartB(b) ==
  IF ~IsChargeSuccess(b) THEN Done(Respond(NoRes, 200, StatusBody), <<>>, NoLocal, <<>>)
  ELSE WebhookChargeB(b.data, b.data.metadata)

(***************************************************************************)
(* POST /paystack-webhook of the third server of index.js (index_c)        *)
(***************************************************************************)
ItemSpace == <<"I", "t", "e", "m", " ">>

PlusR == <<" ", "+", "R">>

\* where the group (.+) starts when "Item \d+: " stands at i with its digits
\* ending before j; 0 when it does not stand there
GroupStartAt(s, i, j) ==
  IF HasAt(s, ItemSpace, i) /\ j > i + Len(ItemSpace) /\ HasAt(s, ColonSpace, j)
  THEN j + 2 ELSE 0

GroupStart(s, i) == GroupStartAt(s, i, SkipDigits(s, i + Len(ItemSpace)))

\* the positions of " +R\d" that leave the group starting at g a character
Tails(s, g) == {p \in (g + 1)..Len(s) : HasAt(s, PlusR, p) /\ p + 3 <= Len(s)
                                        /\ IsDigit(s[p + 3])}

\* the positions at which /Item \d+: (.+) \+R(\d+)/ matches
LegacyStarts(s) == {i \in 1..Len(s) : GroupStart(s, i) > 0 /\ Tails(s, GroupStart(s, i)) # {}}

\* { name: match[1], quantity: 1, price: Number(match[2]) } for the group
\* s[g..p-1]
LegacyMatch(s, g, p) ==
  [name |-> SubSeq(s, g, p - 1), quantity |-> Num(10),
   price |-> Num(DigitsValue(s, p + 3, SkipDigits(s, p + 3)) * 10)]

\* the group is greedy: it ends at the last " +R\d"
LegacyGroup(s, g) == LegacyMatch(s, g, Greatest(Tails(s, g)))

\* line.match(/Item \d+: (.+) \+R(\d+)/) and the object built from it
ParseLegacyLine(line) ==
  IF LegacyStarts(line) = {} THEN [name |-> line, quantity |-> Num(10), price |-> Num(0)]
  ELSE LegacyGroup(line, GroupStart(line, Least(LegacyStarts(line))))

ParseLegacyLines(lines) == [k \in 1..Len(lines) |-> ParseLegacyLine(lines[k])]

\* metadata?.custom_fields?.find(f => f.variable_name === name)
LookupC(m, name) ==
  IF m.present /\ m.custom_fields.arr THEN FindField(m.custom_fields.elems, name)
  ELSE [threw |-> FALSE, found |-> FALSE, value |-> Undef]

\* from `if (!emailValue)` on; text is cartItemsString || ""
WebhookSendC(d, fullName, phone, delivery, text) ==
  IF Falsy(d.customerEmail)
  THEN Done(Respond(NoRes, 400, StatusBody), <<>>, NoLocal, <<"Webhook: customer email missing">>)
  ELSE IF text.t # "string" THEN CatchLegacy(<<>>)
  ELSE Await("email1", NoRes,
             <<EmailCall(d.customerEmail,
                         [fullNameValue |-> fullName.value,
                          emailValue |-> d.customerEmail,
                          phoneValue |-> phone.value,
                          deliveryMethod |-> delivery.value,
                          amount |-> AmountOver100(d.amount),
                          items |-> ParseLegacyLines(Split(text.s, PipeSep))])>>,
             NoLocal)

\* the four lookups: find throws on a null entry
WebhookLookedUpC(d, fullName, phone, delivery, cart) ==
  IF fullName.threw \/ phone.threw \/ delivery.threw \/ cart.threw THEN CatchLegacy(<<>>)
  ELSE WebhookSendC(d, fullName, phone, delivery, OrElse(cart.value, Str(<<>>)))

\* the charge.success branch: event.data.customer throws without data
WebhookChargeC(d, m) ==
  IF ~d.present THEN CatchLegacy(<<>>)
  ELSE WebhookLookedUpC(d, LookupC(m, NameFullName), LookupC(m, NamePhoneNumber),
                        LookupC(m, NameDeliveryMethod), LookupC(m, NameCartItems))

\* the handler up to its await.  createHmac throws on an undefined key and
\* update on an undefined rawBody.
WebhookStartC(b, sig, secret) ==
  IF ~secret \/ ~b.raw THEN CatchLegacy(<<>>)
  ELSE IF sig # Hmac(SecretKey, b)
  THEN Done(Respond(NoRes, 400, StatusBody), <<>>, NoLocal, <<LogMismatch>>)
  ELSE IF ~IsChargeSuccess(b) THEN Done(Respond(NoRes, 200, StatusBody), <<>>, NoLocal, <<>>)
  ELSE WebhookChargeC(b.data, b.data.metadata)

\* index_b and index_c answer after the send
WebhookAfterEmailLegacy(cs, sent) ==
  IF sent THEN Done(Respond(NoRes, 200, StatusBody), cs, NoLocal, <<>>)
  ELSE CatchLegacy(cs)

WebhookStart(r, b, sig, secret) ==
  CASE r = "part_001" -> WebhookStart001(b, sig, secret)
    [] r = "index_b" -> WebhookStartB(b)
    [] OTHER -> WebhookStartC(b, sig, secret)

\* what follows an await of sendEmailWithTemplate
AfterEmail(r, route, at, rs, cs, loc, sent) ==
  IF route = "pay" THEN PayAfterEmail(loc, cs, sent)
  ELSE IF r = "part_001" THEN WebhookAfterEmail001(at, rs, cs, loc, sent)
  ELSE WebhookAfterEmailLegacy(cs, sent)

(***************************************************************************)
(* Requests                                                                *)
(***************************************************************************)
\* the longest cart
MaxCart == 2

NoText == Str(<<>>)

RawItem(preset, handleType, mugType, mugColor, replacementName, quantity, price) ==
  [nil |-> FALSE, preset |-> preset, handleType |-> handleType, mugType |-> mugType,
   mugColor |-> mugColor, replacementName |-> replacementName,
   quantity |-> quantity, price |-> price, line |-> Undef, name |-> Undef,
   gift |-> Undef]

\* a null element of the items array
NilItem == [RawItem(Undef, Undef, Undef, Undef, Undef, Undef, Undef) EXCEPT !.nil = TRUE]

\* {preset: "Gold", quantity: 2, price: 50}
ItemGold == RawItem(Str(<<"G", "o", "l", "d">>), Undef, Undef, Undef, Undef, Num(20), Num(500))

\* {quantity: 1, price: 30}
ItemPlain == RawItem(Undef, Undef, Undef, Undef, Undef, Num(10), Num(300))

\* {preset: "<b>Preset:</b> Preset: Red", mugColor: "mug color : Blue",
\*  quantity: "1.5", price: "<b>Price:</b> R90.5"}
ItemMarkup ==
  RawItem(Str(<<"<", "b", ">", "P", "r", "e", "s", "e", "t", ":", "<", "/", "b", ">", " ", "P", "r", "e", "s", "e", "t", ":", " ", "R", "e", "d">>),
          Undef, Undef,
          Str(<<"m", "u", "g", " ", "c", "o", "l", "o", "r", " ", ":", " ", "B", "l", "u", "e">>),
          Undef,
          Str(<<"1", ".", "5">>),
          Str(<<"<", "b", ">", "P", "r", "i", "c", "e", ":", "<", "/", "b", ">", " ", "R", "9", "0", ".", "5">>))

\* {handleType: "C | D", replacementName: "Bo (x3) @ R7", quantity: 0, price: -5}
ItemOdd ==
  RawItem(Undef, Str(<<"C", " ", "|", " ", "D">>), Undef, Undef,
          Str(<<"B", "o", " ", "(", "x", "3", ")", " ", "@", " ", "R", "7">>), Num(0), Num(-50))

\* {preset: " Item 2 ", mugType: null, price: "free"}
ItemPlaceholder ==
  RawItem(Str(<<" ", "I", "t", "e", "m", " ", "2", " ">>), Undef, Null, Undef, Undef, Undef,
          Str(<<"f", "r", "e", "e">>))

\* {preset: "Preset: Preset: Preset: Oak", quantity: 1, price: 10}
ItemNested ==
  RawItem(Str(<<"P", "r", "e", "s", "e", "t", ":", " ", "P", "r", "e", "s", "e", "t", ":", " ", "P", "r", "e", "s", "e", "t", ":", " ", "O", "a", "k">>),
          Undef, Undef, Undef, Undef, Num(10), Num(100))

\* {quantity: 1, price: 10, gift: "Hi"}
ItemNote ==
  [RawItem(Undef, Undef, Undef, Undef, Undef, Num(10), Num(100))
     EXCEPT !.gift = Str(<<"H", "i">>)]

RawItems == {ItemGold, ItemPlain, ItemMarkup, ItemOdd, ItemPlaceholder, ItemNested,
             ItemNote, NilItem}

\* the arrays of 1..MaxCart raw items
Carts == UNION {[1..n -> RawItems] : n \in 1..MaxCart}

\* what the items field of a /pay body can be: no array, [], a cart
ItemsValues == {NotArr, Arr(<<>>)} \cup {Arr(c) : c \in Carts}

Email == Str(<<"a", "@", "b", ".", "c">>)

Phone == Str(<<"0", "7">>)

FullName == Str(<<"A", "l">>)

Courier == Str(<<"C", "o", "u", "r", "i", "e", "r">>)

PayForm(amount, dm, phone, email, name) ==
  [amount |-> amount, deliveryMethod |-> dm, phoneValue |-> phone, emailValue |-> email,
   fullNameValue |-> name]

\* the other fields of a /pay body: amounts absent, 999, 0, -5 and "20"; customer
\* fields present, absent, empty and null
PayForms == {PayForm(Undef, Courier, Phone, Email, FullName),
             PayForm(Num(9990), Undef, Phone, Email, FullName),
             PayForm(Num(0), Courier, Phone, Email, FullName),
             PayForm(Num(-50), Courier, Phone, Email, FullName),
             PayForm(Str(<<"2", "0">>), Courier, Phone, Email, FullName),
             PayForm(Undef, Courier, Phone, Undef, FullName),
             PayForm(Undef, Courier, NoText, Email, FullName),
             PayForm(Num(9990), Courier, Phone, Email, Null)}

PayBody(f, i) ==
  [amount |-> f.amount, items |-> i, deliveryMethod |-> f.deliveryMethod,
   phoneValue |-> f.phoneValue, emailValue |-> f.emailValue,
   fullNameValue |-> f.fullNameValue]

PayBodies == {PayBody(f, i) : f \in PayForms, i \in ItemsValues}

HookBody(event, data) == [raw |-> TRUE, event |-> event, data |-> data]

HookData(email, amount, metadata) ==
  [present |-> TRUE, customerEmail |-> email, amount |-> amount, metadata |-> metadata]

\* JSON has no NaN: it travels as null
JsonNumber(v) == IF v.t = "nan" THEN Null ELSE v

\* the data of the notification the gateway sends for the transaction it stored
EchoData(payload) == HookData(payload.email, JsonNumber(payload.amount), payload.metadata)

\* the same for a transaction whose metadata holds no cart array, as the older
\* flows initialized it
EchoDataWithoutCart(payload) ==
  HookData(payload.email, JsonNumber(payload.amount),
           [payload.metadata EXCEPT !.cart = NotArr])

\* the same without data.customer
EchoDataWithoutCustomer(payload) ==
  HookData(Undef, JsonNumber(payload.amount), payload.metadata)

EchoBodies(payload) ==
  {HookBody(Str(ChargeSuccess), EchoData(payload)),
   HookBody(Str(ChargeSuccess), EchoDataWithoutCart(payload)),
   HookBody(Str(ChargeSuccess), EchoDataWithoutCustomer(payload))}

TransferSuccess == <<"t", "r", "a", "n", "s", "f", "e", "r", ".", "s", "u", "c", "c", "e", "s", "s">>

FieldsMeta(fields) == [NoMeta EXCEPT !.present = TRUE, !.custom_fields = Arr(fields)]

\* metadata as index_b reads it
FlatMeta ==
  [NoMeta EXCEPT !.present = TRUE,
                 !.flat = [full_name |-> FullName, email |-> Email,
                           phone_number |-> Phone, delivery_method |-> Courier,
                           cart_items |-> Str(<<"M", "u", "g", " ", "|", " ", "C", "u", "p">>)]]

\* a cart_items text of the older flows
LegacyCartText ==
  Str(<<"I", "t", "e", "m", " ", "1", ":", " ", "M", "u", "g", " ", "+", "R", "5", "0", " ", "|", " ", "I", "t", "e", "m", " ", "2", ":", " ", "C", "u", "p", " ", "(", "X", "2", ")", " ", "@", " ", "r", "4", ".", "5", " ", "|", " ", " ", "|", " ", "(", "x", "1", ")">>)

\* bodies that do not come from a stored transaction
OtherBodies ==
  {NoHookBody,
   HookBody(Str(TransferSuccess), HookData(Email, Cents(15000), NoMeta)),
   HookBody(Undef, HookData(Email, Cents(15000), FlatMeta)),
   HookBody(Str(ChargeSuccess), NoData),
   HookBody(Str(ChargeSuccess), HookData(Undef, Cents(15000), FlatMeta)),
   HookBody(Str(ChargeSuccess), HookData(Email, Cents(15000), NoMeta)),
   HookBody(Str(ChargeSuccess), HookData(Email, Cents(15000), FlatMeta)),
   HookBody(Str(ChargeSuccess),
            HookData(Email, Undef,
                     FieldsMeta(<<Field(NameFullName, FullName),
                                  Field(NameCartItems, LegacyCartText)>>))),
   HookBody(Str(ChargeSuccess),
            HookData(Email, Cents(15000), FieldsMeta(<<Field(NameCartItems, Num(500))>>))),
   HookBody(Str(ChargeSuccess),
            HookData(Email, Cents(15000), FieldsMeta(<<NilField>>)))}

\* a body other than b
AnotherBody(b) == IF b = NoHookBody THEN HookBody(Undef, NoData) ELSE NoHookBody

\* the x-paystack-signature headers tried with body b: none, the gateway's, one
\* made with another key, and the gateway's for another body
Signatures(b) ==
  {NoSig, Hmac(SecretKey, b), Hmac("another key", b), Hmac(SecretKey, AnotherBody(b))}

\* the bodies a webhook request can carry: the gateway's notifications for the
\* stored transaction when there is one, the others when there is none
HookBodies(st) == IF st.has THEN EchoBodies(st.payload) ELSE OtherBodies

(***************************************************************************)
(* Actions                                                                 *)
(***************************************************************************)
Init001 ==
  /\ rev = "part_001"
  /\ secretSet \in BOOLEAN
  /\ pc = "idle"
  /\ req = NoReq
  /\ res = NoRes
  /\ calls = <<>>
  /\ local = NoLocal
  /\ log = <<>>
  /\ stored = NoStored

InitRevisions ==
  /\ rev \in Revisions
  /\ secretSet \in BOOLEAN
  /\ pc = "idle"
  /\ req = NoReq
  /\ res = NoRes
  /\ calls = <<>>
  /\ local = NoLocal
  /\ log = <<>>
  /\ stored = NoStored

\* a POST /pay arrives and runs to its first await or to its response
ReceivePay(b) ==
  /\ pc = "idle"
  /\ ~stored.has
  /\ req' = [NoReq EXCEPT !.route = "pay", !.pay = b]
  /\ \E n \in {PayStart(rev, b)} :
       /\ pc' = n.pc
       /\ res' = n.res
       /\ calls' = n.calls
       /\ local' = n.local
       /\ log' = n.log
  /\ UNCHANGED <<rev, secretSet, stored>>

\* axios.post settles: "ok", "rejected" (an error with a response payload) or
\* "unreachable" (an error with a message only).  The gateway accepts no call
\* made without the secret key.  It keeps the payload of a call it accepts, to
\* report on it to the webhook when the deployed revision has one.
GatewaySettles(outcome) ==
  /\ pc = "gateway"
  /\ outcome = "ok" => secretSet
  /\ \E n \in {PayAfterGateway(rev, req.pay, local, calls, outcome)} :
       /\ pc' = n.pc
       /\ res' = n.res
       /\ calls' = n.calls
       /\ local' = n.local
       /\ log' = n.log
  /\ stored' = IF outcome = "ok" /\ HasWebhook(rev)
               THEN [has |-> TRUE, payload |-> calls[1].payload]
               ELSE stored
  /\ UNCHANGED <<rev, secretSet, req>>

\* a POST /paystack-webhook arrives with body b and signature header sig, and
\* runs to its first await or to its end
ReceiveWebhook(b, sig) ==
  /\ pc = "idle"
  /\ HasWebhook(rev)
  /\ req' = [NoReq EXCEPT !.route = "webhook", !.hook = b, !.sig = sig,
                          !.echoOf = stored.payload]
  /\ \E n \in {WebhookStart(rev, b, sig, secretSet)} :
       /\ pc' = n.pc
       /\ res' = n.res
       /\ calls' = n.calls
       /\ local' = n.local
       /\ log' = n.log
  /\ stored' = NoStored
  /\ UNCHANGED <<rev, secretSet>>

\* sendEmailWithTemplate settles: sent or not
EmailSettles(sent) ==
  /\ pc \in {"email1", "email2"}
  /\ \E n \in {AfterEmail(rev, req.route, pc, res, calls, local, sent)} :
       /\ pc' = n.pc
       /\ res' = n.res
       /\ calls' = n.calls
       /\ local' = n.local
       /\ log' = n.log
  /\ UNCHANGED <<rev, secretSet, req, stored>>

\* the request is over; the next one starts from nothing
Finish ==
  /\ pc = "done"
  /\ pc' = "idle"
  /\ req' = NoReq
  /\ res' = NoRes
  /\ calls' = <<>>
  /\ local' = NoLocal
  /\ log' = <<>>
  /\ UNCHANGED <<rev, secretSet, stored>>

Next ==
  \/ \E b \in PayBodies : ReceivePay(b)
  \/ \E outcome \in {"ok", "rejected", "unreachable"} : GatewaySettles(outcome)
  \/ \E b \in HookBodies(stored) : \E sig \in Signatures(b) : ReceiveWebhook(b, sig)
  \/ \E sent \in BOOLEAN : EmailSettles(sent)
  \/ Finish

\* the latest revision, part_001
Spec == Init001 /\ [][Next]_vars

\* any revision of the repository
SpecRevisions == InitRevisions /\ [][Next]_vars

(***************************************************************************)
(* Properties                                                              *)
(***************************************************************************)
\* no call to the email provider has been made for the request in hand
NoEmailCall == \A k \in 1..Len(calls) : calls[k].kind # "email"

\* the request in hand is a webhook whose signature header is absent or is not
\* the digest of its raw body under the gateway secret
SignatureMismatch ==
  req.route = "webhook" /\ (~req.sig.present \/ req.sig # Hmac(SecretKey, req.hook))

\* the request in hand is a webhook whose signature header is the digest of its
\* raw body under the secret the server holds
Authenticated ==
  req.route = "webhook" /\ secretSet /\ req.sig.present
  /\ req.sig = Hmac(SecretKey, req.hook)

\* C1: a webhook request whose signature is absent or wrong is answered 400, and
\* no email send is attempted for it, whatever its body (part_001 and the
\* second server of index.js, holding the secret)
C1_MismatchRejected ==
  rev \in {"part_001", "index_b"} /\ secretSet /\ SignatureMismatch =>
    /\ NoEmailCall
    /\ pc = "done"
    /\ res.sent = 1
    /\ res.status = 400

\* C2: an authenticated charge.success webhook is answered 200, before the email
\* sends and whatever becomes of them (part_001 and the third server of
\* index.js)
C2_ChargeAcknowledged ==
  rev \in {"part_001", "index_c"} /\ Authenticated /\ req.hook.event = Str(ChargeSuccess) =>
    res.sent = 1 /\ res.status = 200

\* C3: an authenticated webhook whose event is not charge.success (or is
\* missing) is answered 200 and makes no outbound call
C3_OtherEventIgnored ==
  Authenticated /\ req.hook.event # Str(ChargeSuccess) =>
    /\ calls = <<>>
    /\ pc = "done"
    /\ res.sent = 1
    /\ res.status = 200

\* C3's case: an authenticated transfer.success has been answered
C3_OtherEventSeen ==
  /\ Authenticated
  /\ req.hook.event = Str(TransferSuccess)
  /\ pc = "done"
  /\ res.status = 200

\* C4: POST /pay makes no outbound call but the one gateway call; it never calls
\* the email provider (part_001 and part_000)
C4_PayOnlyCallsGateway ==
  rev \in {"part_001", "part_000"} /\ req.route = "pay" =>
    /\ Len(calls) <= 1
    /\ \A k \in 1..Len(calls) : calls[k].kind = "gateway"

\* the /pay request in hand lacks a customer field or a non-empty items array
InvalidPay ==
  /\ req.route = "pay"
  /\ \/ Falsy(req.pay.emailValue)
     \/ Falsy(req.pay.phoneValue)
     \/ Falsy(req.pay.fullNameValue)
     \/ ~req.pay.items.arr
     \/ Len(req.pay.items.elems) = 0

\* C5: an invalid /pay request is answered 400 and the gateway is never called
\* for it (part_001 and the first server of index.js)
C5_InvalidPayRejected ==
  rev \in {"part_001", "index_a"} /\ InvalidPay =>
    /\ calls = <<>>
    /\ pc = "done"
    /\ res.sent = 1
    /\ res.status = 400

\* C6 as stated: every /pay request whose items is the empty array is answered
\* 400 with {error: "Cart is empty or invalid."}
C6_EmptyCartMessage ==
  req.route = "pay" /\ req.pay.items = Arr(<<>>) =>
    /\ pc = "done"
    /\ res.status = 400
    /\ res.body = [kind |-> "error", value |-> "", error |-> "Cart is empty or invalid."]

\* C6, amended: a /pay request with all three customer fields present and with
\* the empty array as items is answered 400 with {error: "Cart is empty or
\* invalid."}
C6_EmptyCartOfKnownCustomer ==
  /\ req.route = "pay"
  /\ req.pay.items = Arr(<<>>)
  /\ ~Falsy(req.pay.emailValue)
  /\ ~Falsy(req.pay.phoneValue)
  /\ ~Falsy(req.pay.fullNameValue)
  => /\ pc = "done"
     /\ calls = <<>>
     /\ res.sent = 1
     /\ res.status = 400
     /\ res.body = [kind |-> "error", value |-> "", error |-> "Cart is empty or invalid."]

\* C6's case: a customer with all fields has sent the empty array and got the
\* answer
C6_EmptyCartSeen ==
  /\ req.route = "pay"
  /\ req.pay.items = Arr(<<>>)
  /\ req.pay.emailValue = Email
  /\ req.pay.phoneValue = Phone
  /\ req.pay.fullNameValue = FullName
  /\ pc = "done"
  /\ res.status = 400

\* C7: a validated /pay request is answered 200 with the gateway's response
\* when the initialize call succeeds, 500 with the gateway's error payload when
\* the call fails with one, 500 with the error message when it fails without,
\* and with no other status
C7_ValidatedPayAnswer ==
  [][pc = "gateway" =>
       /\ GatewaySettles("ok") =>
            res' = [sent |-> 1, status |-> 200,
                    body |-> [kind |-> "data", value |-> "initialize response",
                              error |-> ""]]
       /\ GatewaySettles("rejected") =>
            res' = [sent |-> 1, status |-> 500,
                    body |-> [kind |-> "error", value |-> "",
                              error |-> "gateway error payload"]]
       /\ GatewaySettles("unreachable") =>
            res' = [sent |-> 1, status |-> 500,
                    body |-> [kind |-> "error", value |-> "",
                              error |-> "error message"]]
       /\ pc' = "done"
       /\ res'.status \in {200, 500}]_vars

\* C7's case: a validated request has been answered with the gateway's response
C7_ValidatedPaySeen ==
  /\ req.route = "pay"
  /\ calls # <<>>
  /\ pc = "done"
  /\ res.status = 200
  /\ res.body.value = "initialize response"

\* the sum over items of price x quantity, in hundredths
RECURSIVE SumOfLines(_)
SumOfLines(items) ==
  IF items = <<>> THEN 0
  ELSE Head(items).price.n * Head(items).quantity.n + SumOfLines(Tail(items))

\* the total the rule of C8 gives for a declared amount and the normalized
\* items, in hundredths
RuleTotal(declared, items) ==
  IF declared.t = "number" /\ declared.n > 0 THEN declared.n * 10 ELSE SumOfLines(items)

\* C8: the totalAmount of the gateway request is the declared amount when that
\* coerces to a finite number above 0, else the sum over the normalized items
\* of price x quantity; {price 50, qty 2} and {price 30, qty 1} with no amount
\* give 130, and amount 999 gives 999
C8_TotalAmountRule ==
  req.route = "pay" /\ calls # <<>> =>
    /\ local.totalAmount = Cents(RuleTotal(ToNumber(req.pay.amount), local.normalized))
    /\ calls[1].payload.amount = local.totalAmount
    /\ req.pay.amount = Undef /\ req.pay.items = Arr(<<ItemGold, ItemPlain>>)
         => local.totalAmount = Cents(13000)
    /\ req.pay.amount = Num(9990) => local.totalAmount = Cents(99900)

\* C8's case: the two items of the example, with no amount, are on their way to
\* the gateway
C8_ExampleSeen ==
  /\ req.route = "pay"
  /\ req.pay.amount = Undef
  /\ req.pay.items = Arr(<<ItemGold, ItemPlain>>)
  /\ pc = "gateway"
  /\ calls[1].payload.amount = Cents(13000)

\* item k of the decoded list is item k of the cart: its description, its
\* quantity, its price
SameItem(decoded, item) ==
  /\ decoded.name = item.name.s
  /\ decoded.quantity = item.quantity
  /\ decoded.price = item.price

\* C9: decoding the cart_items text of an initialized transaction with the
\* webhook's fallback parser gives back, item by item, the description, the
\* quantity and the price of the normalized cart it was encoded from
C9_TextRoundTrip ==
  /\ req.route = "webhook"
  /\ local.fallback
  /\ req.echoOf.metadata.cart.arr
  /\ calls # <<>>
  => /\ Len(local.itemsArray) = Len(req.echoOf.metadata.cart.elems)
     /\ \A k \in 1..Len(local.itemsArray) :
          SameItem(local.itemsArray[k], req.echoOf.metadata.cart.elems[k])

\* C10: normalizing a cart that normalizeCart produced changes nothing, item by
\* item
C10_NormalizeIdempotent ==
  /\ req.route = "webhook"
  /\ ~local.fallback
  /\ req.hook.data.metadata.cart.arr
  /\ calls # <<>>
  => local.recart = req.hook.data.metadata.cart.elems

\* text s holds text p somewhere
Contains(s, p) == \E i \in 1..Len(s) : HasAt(s, p, i)

\* t is "item", optional white space from position 5 to d, then digits to the end
ItemThenDigits(t, d) ==
  /\ HasAtI(t, <<"i", "t", "e", "m">>, 1)
  /\ d <= Len(t)
  /\ SkipDigits(t, d) = Len(t) + 1

\* v is a string that, ignoring case and surrounding white space, is "item",
\* optional white space and one or more digits
PlaceholderPreset(v) ==
  v.t = "string" /\ ItemThenDigits(Trim(v.s), SkipSpaces(Trim(v.s), 5))

\* the descriptions that the /pay request in hand has computed for line k of
\* its cart: _name of the normalized item in part_001, the name of the receipt
\* item in part_000
Descriptions(k) ==
  {local.normalized[j].name.s : j \in {i \in {k} : rev = "part_001" /\ i <= Len(local.normalized)}}
  \cup {calls[c].model.items[k].name :
          c \in {i \in 1..Len(calls) : rev = "part_000" /\ calls[i].kind = "email"}}

\* C11: the description of an item whose preset is a placeholder ("item" and
\* digits) does not hold that preset value (part_001 and part_000)
C11_PlaceholderLeftOut ==
  req.route = "pay" =>
    \A k \in 1..Len(req.pay.items.elems) :
      PlaceholderPreset(req.pay.items.elems[k].preset) =>
        \A d \in Descriptions(k) : ~Contains(d, Trim(req.pay.items.elems[k].preset.s))

\* the item carries none of the known descriptive fields
HasNoKnownField(it) ==
  /\ it.preset = Undef
  /\ it.handleType = Undef
  /\ it.mugType = Undef
  /\ it.mugColor = Undef
  /\ it.replacementName = Undef

\* C12: the description of an item without any known field is "Item {index}",
\* and no description is empty (part_001 and part_000)
C12_FallbackDescription ==
  req.route = "pay" =>
    \A k \in 1..Len(req.pay.items.elems) :
      \A d \in Descriptions(k) :
        /\ d # <<>>
        /\ HasNoKnownField(req.pay.items.elems[k]) =>
             d = <<"I", "t", "e", "m", " ">> \o NatText(k)

\* quantity is a whole number of at least 1 and price a number of at least 0
\* (numbers are held in tenths)
IsNormalizedItem(it) ==
  /\ it.quantity.t = "number"
  /\ it.quantity.n % 10 = 0
  /\ it.quantity.n >= 10
  /\ it.price.t = "number"
  /\ it.price.n >= 0

\* C13: every item that normalizeCart produces, at initiation and in the
\* webhook, has an integer quantity >= 1 and a price >= 0
C13_NormalizedItemInvariant ==
  /\ \A k \in 1..Len(local.normalized) : IsNormalizedItem(local.normalized[k])
  /\ \A k \in 1..Len(local.recart) : IsNormalizedItem(local.recart[k])

\* the webhook request in hand is an authenticated charge.success that carries,
\* unchanged, the metadata of the transaction that /pay initialized
EchoesInitiation ==
  /\ Authenticated
  /\ req.hook.event = Str(ChargeSuccess)
  /\ req.echoOf.metadata.present
  /\ req.hook.data.metadata = req.echoOf.metadata

\* a receipt item is line k of the cart as initiation computed it
SameAsInitiated(receiptItem, line) ==
  /\ receiptItem.name = line.name.s
  /\ receiptItem.quantity = line.quantity
  /\ receiptItem.price = line.price

\* C14: when the gateway echoes the metadata of initiation unchanged, the
\* receipt lists the cart's lines in order, each with the name, quantity and
\* price computed for it at initiation
C14_ReceiptMatchesInitiation ==
  EchoesInitiation =>
    \A c \in 1..Len(calls) :
      /\ Len(calls[c].model.items) = Len(req.echoOf.metadata.cart.elems)
      /\ \A k \in 1..Len(calls[c].model.items) :
           SameAsInitiated(calls[c].model.items[k], req.echoOf.metadata.cart.elems[k])

\* an authenticated charge.success is in hand
AuthenticatedCharge == Authenticated /\ req.hook.event = Str(ChargeSuccess)

\* the event carries a customer address: data.customer.email, or
\* metadata.customer.email as initiation wrote it
AddressPresent ==
  \/ ~Falsy(req.hook.data.customerEmail)
  \/ req.hook.data.metadata.present /\ ~Falsy(req.hook.data.metadata.customer.email)

\* C15: for an authenticated charge.success a send is attempted only if the
\* event carries a customer address, and whenever it carries one directly or
\* in its metadata (unless an exception ended the handling first); without an
\* address no call is made and the handling ends
C15_SendIffAddress ==
  AuthenticatedCharge =>
    /\ calls # <<>> => AddressPresent
    /\ AddressPresent /\ log # <<"Error handling webhook">> => calls # <<>>
    /\ ~AddressPresent => calls = <<>> /\ pc = "done"

\* the metadata of the event in hand holds a cart array with elements
CartPresent ==
  /\ req.hook.data.metadata.present
  /\ req.hook.data.metadata.cart.arr
  /\ Len(req.hook.data.metadata.cart.elems) > 0

\* the value of the cart_items entry of the event's custom_fields, "" without one
CartItemsText ==
  OrElse(LookupField(MetaOf(req.hook.data), NameCartItems).value, Str(<<>>))

\* C16: the receipt items come from the structured cart, normalized again,
\* whenever the metadata holds one, whatever the cart_items text says; they come
\* from the parse of that text only when it holds none.  The items are built
\* before the first send and are the same in every send.
C16_StructuredFirst ==
  AuthenticatedCharge /\ calls # <<>> =>
    /\ \A c \in 1..Len(calls) : calls[c].model.items = local.itemsArray
    /\ local.fallback = ~CartPresent
    /\ pc = "email1" /\ CartPresent =>
         local.itemsArray = toTemplateItems(normalizeCart(req.hook.data.metadata.cart))
    /\ pc = "email1" /\ ~CartPresent =>
         local.itemsArray = ParseCartItems(CartItemsText.s)

\* C16's case: the event holds a structured cart and a cart_items text that
\* parses to other items, and the receipt is on its way
C16_BothAvailableSeen ==
  /\ AuthenticatedCharge
  /\ CartPresent
  /\ CartItemsText.t = "string"
  /\ ParseCartItems(CartItemsText.s)
       # toTemplateItems(normalizeCart(req.hook.data.metadata.cart))
  /\ pc = "email1"
  /\ calls[1].model.items = toTemplateItems(normalizeCart(req.hook.data.metadata.cart))

\* the lines of a cart_items text that the fallback parse turns into items
LinesOf(text) == NonEmpty(Split(text, PipeSep))

\* a receipt item has the defaults of the fallback parse where its line
\* matches no "(xN)" and no "@ RP"
DefaultsWhereUnmatched(receiptItem, line) ==
  /\ QtyStarts(line) = {} => receiptItem.quantity = Num(10)
  /\ PriceStarts(line) = {} => receiptItem.price = Num(0)

\* C17: for an authenticated charge.success with a customer address and no
\* structured cart, whatever custom_fields holds, the fallback raises nothing:
\* the send is attempted, with one item per line and the defaults where the
\* patterns do not match
C17_FallbackNeverFails ==
  AuthenticatedCharge /\ ~Falsy(req.hook.data.customerEmail) /\ ~CartPresent =>
    /\ calls # <<>>
    /\ Len(calls[1].model.items) = Len(LinesOf(CartItemsText.s))
    /\ \A k \in 1..Len(calls[1].model.items) :
         DefaultsWhereUnmatched(calls[1].model.items[k], LinesOf(CartItemsText.s)[k])

\* C18: in a webhook request no send starts before the signature check has
\* passed; the first send goes to the customer and the second, the internal
\* copy, starts only when the first has completed successfully; a send that
\* failed is followed by no other, so that each is attempted at most once
C18_SendsInOrder ==
  /\ [](req.route = "webhook" /\ calls # <<>> =>
          /\ Authenticated
          /\ Len(calls) <= 2
          /\ \A c \in 1..Len(calls) : calls[c].kind = "email"
          /\ calls[1].to = req.hook.data.customerEmail
          /\ Len(calls) = 2 => /\ calls[2].to # calls[1].to
                               /\ calls[2].model = calls[1].model
                               /\ pc \in {"email2", "done"})
  /\ [][req.route = "webhook" /\ pc \in {"email1", "email2"} =>
          /\ EmailSettles(FALSE) => calls' = calls /\ pc' = "done"
          /\ calls' # calls => /\ EmailSettles(TRUE)
                               /\ pc = "email1"
                               /\ Len(calls) = 1
                               /\ Len(calls') = 2]_vars

\* C18's case: the customer's receipt has gone out and the internal copy is
\* on its way
C18_CopyAfterReceiptSeen ==
  /\ req.route = "webhook"
  /\ pc = "email2"
  /\ Len(calls) = 2
  /\ calls[1].to = Email
  /\ calls[2].to = SalesAddress

\* C19: every webhook request has exactly one response, from the step that
\* receives it on, whether or not an exception was raised before the
\* acknowledgment; nothing that happens later, the catch block after a failed
\* send included, sends another or changes its status
C19_ExactlyOneResponse ==
  /\ [](req.route = "webhook" => res.sent = 1 /\ res.status \in {200, 400})
  /\ [][req.route = "webhook" /\ pc # "done" => res' = res]_vars

\* C19's case: the secret is not set, computing the HMAC has raised, and the
\* catch block has answered
C19_RaisedBeforeAckSeen ==
  /\ req.route = "webhook"
  /\ ~secretSet
  /\ log = <<"Error handling webhook">>
  /\ calls = <<>>
  /\ res = [sent |-> 1, status |-> 200,
            body |-> [kind |-> "status", value |-> "", error |-> ""]]

====
